---------------------------- MODULE Spec2Model ----------------------------
(***************************************************************************)
(* A model of the select dialog of cli_select (src/src/select.rs): the     *)
(* struct Select, its configuration methods and the event loop of start(). *)
(* Indices are 0-based as in the source; a sequence is read at index + 1.  *)
(***************************************************************************)
EXTENDS Integers, Sequences, FiniteSets, TLC

\* ------------------------------------------------------------------ bounds
\* Longest item list a dialog is constructed with.
MaxItems == 3
\* Most method calls (configuration calls and start() calls together) made on
\* one dialog.
MaxCalls == 3

\* ------------------------------------------------------------ value domains
\* The displayable values the caller's lists are made of.
ItemPool == <<"a", "b", "c", "d", "e">>

\* crossterm KeyCode values: the two defaults, the confirm code, one custom.
Codes == {"Up", "Down", "Enter", "k"}

\* crossterm KeyModifiers values (a bit set; NONE is the empty set).
NONE == {}
Modifiers == {NONE, {"SHIFT"}, {"CONTROL", "ALT"}}

\* crossterm Event values: key events, and one event that is not a key press.
KeyEvent(code, modifiers) == [kind |-> "Key", code |-> code, modifiers |-> modifiers]
ResizeEvent == [kind |-> "Resize", code |-> "none", modifiers |-> NONE]
Events == {KeyEvent(c, m) : c \in Codes, m \in Modifiers} \cup {ResizeEvent}

\* The event start() compares with to leave its loop.
EnterEvent == KeyEvent("Enter", NONE)

\* No event read yet in this session / no item returned yet.
NoEvent == [kind |-> "none", code |-> "none", modifiers |-> NONE]
NoItem == "(none)"

\* Characters passed to pointer() and not_selected_pointer().
PointerChars == {"*"}
NoChar == "(none)"

VARIABLES
    items,                      \* &'a Vec<I>: the caller's list
    lines,                      \* Vec<Line>
    selected_item,              \* usize
    pointer,                    \* char
    not_selected_pointer,       \* Option<char>
    default_up, default_down,   \* KeyCode
    up_keys, down_keys,         \* Vec<KeyCode>
    selection_changed,          \* Option<Box<dyn Fn>>: TRUE when Some
    move_selected_item_forward, \* bool
    underline_selected_item,    \* bool
    pc,                         \* where the dialog is: Building, AwaitingInput,
                                \* Confirmed (start() returned), Panicked
    panic_at,                   \* the function that panicked, or "none"
    result,                     \* the item the latest start() returned
    session,                    \* start() calls made so far
    nconfig,                    \* configuration calls made so far
    last_event,                 \* the event the latest loop iteration read
    action,                     \* what the latest step of start() did with it
    out,                        \* what the latest step of start() printed
    notified,                   \* the callback invocations of the latest step
    effects,                    \* the prints and callback invocations of the
                                \* latest step, in the order they happened
    fold,                       \* history: the index claimed for the first
                                \* session, folded from 0 over its events
    added_up, added_down,       \* history: codes add_up_key/add_down_key took
    started_up, started_down    \* history: defaults in force at each start()

config == <<pointer, not_selected_pointer, default_up, default_down, up_keys,
            down_keys, selection_changed, move_selected_item_forward,
            underline_selected_item>>
sessionVars == <<lines, selected_item, pc, panic_at, result, session,
                 last_event, action, out, notified, effects, fold>>
history == <<added_up, added_down, started_up, started_down>>
vars == <<items, config, sessionVars, nconfig, history>>

\* --------------------------------------------------------------- helpers
Range(s) == {s[i] : i \in 1..Len(s)}
Max(a, b) == IF a >= b THEN a ELSE b
Min(a, b) == IF a <= b THEN a ELSE b

\* Line (crate::line): new, default, select, underline, space_from_pointer.
LineNew(text, p) ==
    [text |-> text, pointer |-> p, selected |-> FALSE, underlined |-> FALSE,
     indent |-> 0]
LineDefault(l) == [l EXCEPT !.selected = FALSE, !.underlined = FALSE, !.indent = 0]
LineSelect(l) == [l EXCEPT !.selected = TRUE]
LineUnderline(l) == [l EXCEPT !.underlined = TRUE]
LineSpaceFromPointer(l, n) == [l EXCEPT !.indent = n]

\* What println! writes: a line, a blank string, a cursor sequence.
PrintLine(l) == [op |-> "line", line |-> l]
PrintBlank(w) == [op |-> "blank", width |-> w]
PrintMoveUp(n) == [op |-> "move_up", n |-> n]


\* The terminal: the cursor row after one println!. A line or a blank string
\* ends with a newline, one row down; the cursor sequence moves n rows up and
\* its newline one row down. Rows are counted downwards, far enough from the
\* top of the screen for the cursor never to be stopped there.
RowAfter(row, printed) ==
    IF printed.op = "move_up" THEN row - printed.n + 1 ELSE row + 1

\* The cursor row before the i-th of the printed items, from row start.
RECURSIVE RowBefore(_, _, _)
RowBefore(printed, start, i) ==
    IF i = 1 THEN start
    ELSE RowAfter(RowBefore(printed, start, i - 1), printed[i - 1])

\* The rows on which the printed items of one kind are written.
RowsOf(printed, start, kind) ==
    {RowBefore(printed, start, i) :
        i \in {j \in 1..Len(printed) : printed[j].op = kind}}

\* ------------------------------------------------- program constants
\* The row count erase_printed_items passes to move_n_lines_up.
EraseRows == 4
\* The margin erase_printed_items adds to an item's character count.
BlankMargin == 3

\* --------------------------------------------------- private helpers
\* Select::new: the field values of a fresh dialog over list its.
new(its) ==
    [items |-> its, pointer |-> ">", selected_item |-> 0, default_up |-> "Up",
     default_down |-> "Down", selection_changed |-> FALSE,
     not_selected_pointer |-> NoChar, move_selected_item_forward |-> FALSE,
     underline_selected_item |-> FALSE, up_keys |-> <<>>, down_keys |-> <<>>,
     lines |-> <<>>]

\* build_lines: one Line per item, with the current pointer.
build_lines == [i \in 1..Len(items) |-> LineNew(items[i], pointer)]

\* A print_lines that skips the flagging when the index is out of range
\* instead of panicking.
print_lines_no_index_panic(ls, sel) ==
    LET reset == [i \in 1..Len(ls) |-> LineDefault(ls[i])]
        s1 == LineSelect(reset[sel + 1])
        s2 == IF underline_selected_item THEN LineUnderline(s1) ELSE s1
        s3 == IF move_selected_item_forward THEN LineSpaceFromPointer(s2, 1) ELSE s2
        flagged == IF sel >= Len(ls) THEN reset ELSE [reset EXCEPT ![sel + 1] = s3]
    IN  [lines |-> flagged,
         out |-> [i \in 1..Len(flagged) |-> PrintLine(flagged[i])],
         panicked |-> FALSE]

\* A print_lines that flags the selected line without resetting the others.
print_lines_no_reset(ls, sel) ==
    LET s1 == LineSelect(ls[sel + 1])
        s2 == IF underline_selected_item THEN LineUnderline(s1) ELSE s1
        s3 == IF move_selected_item_forward THEN LineSpaceFromPointer(s2, 1) ELSE s2
        flagged == [ls EXCEPT ![sel + 1] = s3]
    IN  IF sel >= Len(ls)
        THEN [lines |-> ls, out |-> <<>>, panicked |-> TRUE]
        ELSE [lines |-> flagged,
              out |-> [i \in 1..Len(flagged) |-> PrintLine(flagged[i])],
              panicked |-> FALSE]

\* print_lines on lines ls with index sel: every line reset, the selected one
\* flagged, then all printed. Indexing ls[sel] panics when sel is out of range,
\* after the reset and before anything is printed.
print_lines(ls, sel) ==
    LET reset == [i \in 1..Len(ls) |-> LineDefault(ls[i])]
        s1 == LineSelect(reset[sel + 1])
        s2 == IF underline_selected_item THEN LineUnderline(s1) ELSE s1
        s3 == IF move_selected_item_forward THEN LineSpaceFromPointer(s2, 1) ELSE s2
        flagged == [reset EXCEPT ![sel + 1] = s3]
    IN  IF sel >= Len(ls)
        THEN [lines |-> reset, out |-> <<>>, panicked |-> TRUE]
        ELSE [lines |-> flagged,
              out |-> [i \in 1..Len(flagged) |-> PrintLine(flagged[i])],
              panicked |-> FALSE]

\* move_n_lines_up(n): one println! of the cursor sequence.
move_n_lines_up(n) == <<PrintMoveUp(n)>>

\* erase_printed_items: cursor up, one blank string per item, cursor up.
erase_printed_items ==
    move_n_lines_up(EraseRows)
    \o [i \in 1..Len(items) |-> PrintBlank(Len(items[i]) + BlankMargin)]
    \o move_n_lines_up(EraseRows)

\* What a move leaves behind: index, lines, output, and whether it panicked.
Moved(sel, ls, o, p) == [selected_item |-> sel, lines |-> ls, out |-> o, panicked |-> p]

\* A move_up that repaints without erasing first.
move_up_no_erase(sel, ls) ==
    IF sel = 0
    THEN Moved(sel, ls, <<>>, FALSE)
    ELSE LET p == print_lines(ls, sel - 1)
         IN  Moved(sel - 1, p.lines, p.out, p.panicked)

\* A move_up that wraps from the first index to the last.
move_up_wrap(sel, ls) ==
    LET to == IF sel = 0 THEN Len(items) - 1 ELSE sel - 1
        p == print_lines(ls, to)
    IN  Moved(to, p.lines, erase_printed_items \o p.out, p.panicked)

\* move_up: nothing at index 0, else one step up, erase and repaint.
move_up(sel, ls) ==
    IF sel = 0
    THEN Moved(sel, ls, <<>>, FALSE)
    ELSE LET p == print_lines(ls, sel - 1)
         IN  Moved(sel - 1, p.lines, erase_printed_items \o p.out, p.panicked)

\* A move_down whose boundary test is off by one: it stops one index early.
move_down_early(sel, ls, overflow_checks) ==
    IF Len(items) > 1 /\ sel = Len(items) - 2
    THEN Moved(sel, ls, <<>>, FALSE)
    ELSE IF Len(items) > 0 /\ sel = Len(items) - 1
    THEN Moved(sel, ls, <<>>, FALSE)
    ELSE LET p == print_lines(ls, sel + 1)
         IN  Moved(sel + 1, p.lines, erase_printed_items \o p.out, p.panicked)

\* move_down: nothing at the last index, else one step down, erase and repaint.
\* items.len() - 1 is a usize subtraction: on an empty list it panics in a build
\* with overflow checks (debug) and wraps to usize::MAX in one without
\* (release), which no index equals. overflow_checks is the build's setting.
move_down(sel, ls, overflow_checks) ==
    IF Len(items) = 0 /\ overflow_checks
    THEN Moved(sel, ls, <<>>, TRUE)
    ELSE IF Len(items) > 0 /\ sel = Len(items) - 1
    THEN Moved(sel, ls, <<>>, FALSE)
    ELSE LET p == print_lines(ls, sel + 1)
         IN  Moved(sel + 1, p.lines, erase_printed_items \o p.out, p.panicked)

\* A handler call that passes the first item whatever the selection.
call_event_handler_first_item(key, sel) ==
    IF selection_changed
    THEN <<[key |-> key, item |-> items[1]]>>
    ELSE <<>>

\* call_event_handler_if_supplied(key): the calls the handler receives.
call_event_handler_if_supplied(key, sel) ==
    IF selection_changed
    THEN <<[key |-> key, item |-> items[sel + 1]]>>
    ELSE <<>>

\* An event_contains_key that compares the key code only.
event_contains_key_any_modifiers(event, keys) ==
    \E i \in 1..Len(keys) : event.kind = "Key" /\ event.code = keys[i]

\* event_contains_key: the event equals a key of keys pressed with no modifier.
event_contains_key(event, keys) ==
    \E i \in 1..Len(keys) : event = KeyEvent(keys[i], NONE)

\* panic_if_key_is_enter
panic_if_key_is_enter(key) == key = "Enter"

\* The test at the top of the loop of start().
is_confirm(event) == event = EnterEvent

\* ----------------------------------------------------------- the dialog
\* Select::new(items): any list of at most MaxItems items, the empty one too.
Init ==
    /\ items \in {SubSeq(ItemPool, 1, n) : n \in 0..MaxItems}
    /\ lines = new(items).lines
    /\ selected_item = new(items).selected_item
    /\ pointer = new(items).pointer
    /\ not_selected_pointer = new(items).not_selected_pointer
    /\ default_up = new(items).default_up
    /\ default_down = new(items).default_down
    /\ up_keys = new(items).up_keys
    /\ down_keys = new(items).down_keys
    /\ selection_changed = new(items).selection_changed
    /\ move_selected_item_forward = new(items).move_selected_item_forward
    /\ underline_selected_item = new(items).underline_selected_item
    /\ pc = "Building"
    /\ panic_at = "none"
    /\ result = NoItem
    /\ session = 0
    /\ nconfig = 0
    /\ last_event = NoEvent
    /\ action = "none"
    /\ out = <<>>
    /\ notified = <<>>
    /\ effects = <<>>
    /\ fold = 0
    /\ added_up = {}
    /\ added_down = {}
    /\ started_up = {}
    /\ started_down = {}

\* A configuration method can be called while no start() is running: before
\* the first one, or after one returned.
CanCall == pc \in {"Building", "Confirmed"} /\ nconfig + session < MaxCalls

Configured == /\ nconfig' = nconfig + 1
              /\ UNCHANGED <<items, sessionVars, history>>

\* pointer(c)
SetPointer ==
    /\ CanCall
    /\ \E c \in PointerChars : pointer' = c
    /\ Configured
    /\ UNCHANGED <<not_selected_pointer, default_up, default_down, up_keys,
                   down_keys, selection_changed, move_selected_item_forward,
                   underline_selected_item>>

\* not_selected_pointer(c)
SetNotSelectedPointer ==
    /\ CanCall
    /\ \E c \in PointerChars : not_selected_pointer' = c
    /\ Configured
    /\ UNCHANGED <<pointer, default_up, default_down, up_keys, down_keys,
                   selection_changed, move_selected_item_forward,
                   underline_selected_item>>

\* move_selected_item_forward()
SetMoveSelectedItemForward ==
    /\ CanCall
    /\ move_selected_item_forward' = TRUE
    /\ Configured
    /\ UNCHANGED <<pointer, not_selected_pointer, default_up, default_down,
                   up_keys, down_keys, selection_changed, underline_selected_item>>

\* underline_selected_item()
SetUnderlineSelectedItem ==
    /\ CanCall
    /\ underline_selected_item' = TRUE
    /\ Configured
    /\ UNCHANGED <<pointer, not_selected_pointer, default_up, default_down,
                   up_keys, down_keys, selection_changed,
                   move_selected_item_forward>>

\* selection_changed = Some(handler): the field is public.
SetSelectionChanged ==
    /\ CanCall
    /\ selection_changed' = TRUE
    /\ Configured
    /\ UNCHANGED <<pointer, not_selected_pointer, default_up, default_down,
                   up_keys, down_keys, move_selected_item_forward,
                   underline_selected_item>>

\* set_up_key(key): any key code, no check.
set_up_key(key) == key

SetUpKey ==
    /\ CanCall
    /\ \E key \in Codes : default_up' = set_up_key(key)
    /\ Configured
    /\ UNCHANGED <<pointer, not_selected_pointer, default_down, up_keys,
                   down_keys, selection_changed, move_selected_item_forward,
                   underline_selected_item>>

\* set_down_key(key): any key code, no check.
set_down_key(key) == key

SetDownKey ==
    /\ CanCall
    /\ \E key \in Codes : default_down' = set_down_key(key)
    /\ Configured
    /\ UNCHANGED <<pointer, not_selected_pointer, default_up, up_keys,
                   down_keys, selection_changed, move_selected_item_forward,
                   underline_selected_item>>

\* add_up_key(key) on key set keys: the key set after the call, when it returns.
add_up_key(keys, key) == Append(keys, key)

\* add_up_key(key): panics on the confirm code before the push.
AddUpKey ==
    /\ CanCall
    /\ \E key \in Codes :
         IF panic_if_key_is_enter(key)
         THEN /\ pc' = "Panicked"
              /\ panic_at' = "add_up_key"
              /\ UNCHANGED <<up_keys, added_up>>
         ELSE /\ up_keys' = add_up_key(up_keys, key)
              /\ added_up' = added_up \cup {key}
              /\ UNCHANGED <<pc, panic_at>>
    /\ nconfig' = nconfig + 1
    /\ UNCHANGED <<items, lines, selected_item, result, session, last_event,
                   action, out, notified, effects, fold, added_down, started_up,
                   started_down>>
    /\ UNCHANGED <<pointer, not_selected_pointer, default_up, default_down,
                   down_keys, selection_changed, move_selected_item_forward,
                   underline_selected_item>>

\* add_down_key(key) on key set keys: the key set after the call, when it returns.
add_down_key(keys, key) == Append(keys, key)

\* add_down_key(key): panics on the confirm code before the push.
AddDownKey ==
    /\ CanCall
    /\ \E key \in Codes :
         IF panic_if_key_is_enter(key)
         THEN /\ pc' = "Panicked"
              /\ panic_at' = "add_down_key"
              /\ UNCHANGED <<down_keys, added_down>>
         ELSE /\ down_keys' = add_down_key(down_keys, key)
              /\ added_down' = added_down \cup {key}
              /\ UNCHANGED <<pc, panic_at>>
    /\ nconfig' = nconfig + 1
    /\ UNCHANGED <<items, lines, selected_item, result, session, last_event,
                   action, out, notified, effects, fold, added_up, started_up,
                   started_down>>
    /\ UNCHANGED <<pointer, not_selected_pointer, default_up, default_down,
                   up_keys, selection_changed, move_selected_item_forward,
                   underline_selected_item>>

\* A start() that installs the default as the only up key.
replace_by_default_up(keys, key) == <<key>>

\* start(), lines 146-147: the defaults are pushed onto the key sets.
push_default_up(keys, key) == Append(keys, key)
push_default_down(keys, key) == Append(keys, key)

\* start() up to its loop: build the lines, paint them, push the defaults.
\* The first paint panics on an empty list, before anything is printed and
\* before the defaults are pushed.
Start ==
    /\ CanCall
    /\ LET p == print_lines(build_lines, selected_item)
       IN  /\ lines' = p.lines
           /\ out' = p.out
           /\ effects' = p.out
           /\ IF p.panicked
              THEN /\ pc' = "Panicked"
                   /\ panic_at' = "print_lines"
                   /\ UNCHANGED <<up_keys, down_keys, started_up, started_down>>
              ELSE /\ pc' = "AwaitingInput"
                   /\ up_keys' = push_default_up(up_keys, default_up)
                   /\ down_keys' = push_default_down(down_keys, default_down)
                   /\ started_up' = started_up \cup {default_up}
                   /\ started_down' = started_down \cup {default_down}
                   /\ UNCHANGED panic_at
    /\ session' = session + 1
    /\ result' = NoItem
    /\ last_event' = NoEvent
    /\ action' = "start"
    /\ notified' = <<>>
    /\ fold' = 0
    /\ UNCHANGED <<items, selected_item, pointer, not_selected_pointer,
                   default_up, default_down, selection_changed,
                   move_selected_item_forward, underline_selected_item,
                   nconfig, added_up, added_down>>

\* A loop that tests the up and down keys before the confirm event.
classify_keys_first(event) ==
    IF event_contains_key(event, up_keys) THEN "up"
    ELSE IF event_contains_key(event, down_keys) THEN "down"
    ELSE IF is_confirm(event) THEN "confirm"
    ELSE "ignored"

\* A loop that tests the down keys before the up keys.
classify_down_first(event) ==
    IF is_confirm(event) THEN "confirm"
    ELSE IF event_contains_key(event, down_keys) THEN "down"
    ELSE IF event_contains_key(event, up_keys) THEN "up"
    ELSE "ignored"

\* A loop whose second test is a plain else: what is not up moves down.
classify_unknown_as_down(event) ==
    IF is_confirm(event) THEN "confirm"
    ELSE IF event_contains_key(event, up_keys) THEN "up"
    ELSE "down"

\* A loop that also breaks on an event it does not recognise.
classify_break_on_unknown(event) ==
    IF is_confirm(event) THEN "confirm"
    ELSE IF event_contains_key(event, up_keys) THEN "up"
    ELSE IF event_contains_key(event, down_keys) THEN "down"
    ELSE "confirm"

\* The if-chain of the loop body, lines 152-168: confirm first, then the up
\* keys, then the down keys; anything else falls through to the next read.
classify(event) ==
    IF is_confirm(event) THEN "confirm"
    ELSE IF event_contains_key(event, up_keys) THEN "up"
    ELSE IF event_contains_key(event, down_keys) THEN "down"
    ELSE "ignored"

\* A start() that returns the first item whatever the selection.
returned_item_first(sel) == items[1]

\* start(), line 170: the item returned after the loop.
returned_item(sel) == items[sel + 1]

\* An up or down event changes the claimed index by the clamped step.
FoldStep(i, class) ==
    IF class = "up" THEN Max(i - 1, 0)
    ELSE IF class = "down" THEN Min(i + 1, Len(items) - 1)
    ELSE i

\* A callback invocation as an effect of the loop.
Callback(call) == [op |-> "callback", key |-> call.key, item |-> call.item]

\* Lines 161-162 and 165-166: the move prints, then the handler is called.
loop_effects(printed, calls) ==
    printed \o [i \in 1..Len(calls) |-> Callback(calls[i])]

\* The build settings under which items.len() - 1 behaves differently: both
\* on an empty list, and one stands for both otherwise.
OverflowChecks == IF Len(items) = 0 THEN BOOLEAN ELSE {TRUE}

\* One iteration of the loop of start(): read() returned event.
Read(event) ==
    /\ pc = "AwaitingInput"
    /\ \E overflow_checks \in OverflowChecks :
         LET class == classify(event)
             m == IF class = "up" THEN move_up(selected_item, lines)
                  ELSE IF class = "down"
                  THEN move_down(selected_item, lines, overflow_checks)
                  ELSE Moved(selected_item, lines, <<>>, FALSE)
         IN  /\ last_event' = event
             /\ action' = class
             /\ selected_item' = m.selected_item
             /\ lines' = m.lines
             /\ out' = m.out
             /\ fold' = IF session = 1 THEN FoldStep(fold, class) ELSE fold
             /\ IF m.panicked
                THEN /\ pc' = "Panicked"
                     /\ panic_at' = "move_" \o class
                     /\ notified' = <<>>
                     /\ UNCHANGED result
                ELSE /\ pc' = IF class = "confirm" THEN "Confirmed" ELSE pc
                     /\ result' = IF class = "confirm"
                                  THEN returned_item(selected_item)
                                  ELSE result
                     /\ notified' =
                          IF class = "up"
                          THEN call_event_handler_if_supplied("UpKey", m.selected_item)
                          ELSE IF class = "down"
                          THEN call_event_handler_if_supplied("DownKey", m.selected_item)
                          ELSE <<>>
                     /\ UNCHANGED panic_at
             /\ effects' = loop_effects(out', notified')
    /\ UNCHANGED <<items, config, session, nconfig, history>>

\* read() returns any event of the terminal.
ReadEvent == \E event \in Events : Read(event)

\* read() returns the confirm event.
ReadConfirm == Read(EnterEvent)

\* A loop that reads again when read() returned an error.
ReadFailRetry ==
    /\ pc = "AwaitingInput"
    /\ last_event' = NoEvent
    /\ action' = "read_error"
    /\ out' = <<>>
    /\ notified' = <<>>
    /\ effects' = <<>>
    /\ UNCHANGED <<items, config, lines, selected_item, pc, panic_at, result,
                   session, fold, nconfig, history>>

\* One iteration of the loop of start(): read() returned an error, and
\* unwrap() panics.
ReadFail ==
    /\ pc = "AwaitingInput"
    /\ pc' = "Panicked"
    /\ panic_at' = "read"
    /\ last_event' = NoEvent
    /\ action' = "read_error"
    /\ out' = <<>>
    /\ notified' = <<>>
    /\ effects' = <<>>
    /\ UNCHANGED <<items, config, lines, selected_item, result, session, fold,
                   nconfig, history>>

Next ==
    \/ SetPointer
    \/ SetNotSelectedPointer
    \/ SetMoveSelectedItemForward
    \/ SetUnderlineSelectedItem
    \/ SetSelectionChanged
    \/ SetUpKey
    \/ SetDownKey
    \/ AddUpKey
    \/ AddDownKey
    \/ Start
    \/ ReadEvent
    \/ ReadFail

Spec == Init /\ [][Next]_vars

\* The terminal eventually delivers the confirm event to a waiting read().
LiveSpec == Spec /\ WF_vars(ReadConfirm)

\* ------------------------------------------------------------ properties
\* The step reads an event in a running session (read() returned Ok).
ReadsEvent == pc = "AwaitingInput" /\ last_event' # NoEvent /\ action' # "read_error"

\* C1: in every reachable state of a dialog the selection index satisfies
\* 0 <= selected_item < items.len().
C1_SelectionInRange == 0 <= selected_item /\ selected_item < Len(items)

\* C2: confirm is final. The step that reads the confirm event ends the session
\* with exactly items[selected_item] for the index at that moment, moving,
\* painting and notifying nothing; and as long as no new start() is called,
\* no event is read and nothing is moved, painted or notified.
C2_ConfirmIsFinal ==
    [][/\ (pc = "AwaitingInput" /\ last_event' = EnterEvent)
            => /\ pc' = "Confirmed"
               /\ result' = items[selected_item + 1]
               /\ selected_item' = selected_item
               /\ lines' = lines
               /\ out' = <<>>
               /\ notified' = <<>>
       /\ (pc = "Confirmed" /\ session' = session)
            => UNCHANGED <<last_event, action, selected_item, lines, out,
                           notified, result>>]_vars

\* C2 witness: a session confirmed after the selection left the first item,
\* and a configuration call made afterwards.
C2_Witness ==
    /\ pc = "Confirmed"
    /\ last_event = EnterEvent
    /\ selected_item = 1
    /\ result = "b"
    /\ nconfig > 0

\* C3: on a freshly constructed dialog over a non-empty list, the selection
\* index follows the fold of the events from 0 (up -> max(i-1, 0),
\* down -> min(i+1, len-1), other -> i), and start() returns items[fold].
C3_ReturnsFoldedItem ==
    (session = 1 /\ pc \in {"AwaitingInput", "Confirmed"})
        => /\ Len(items) > 0
           /\ selected_item = fold
           /\ (pc = "Confirmed" => result = items[fold + 1])

\* C3 witness: items [a,b,c], default bindings, confirmed on c.
C3_Witness ==
    /\ items = <<"a", "b", "c">>
    /\ nconfig = 0
    /\ session = 1
    /\ pc = "Confirmed"
    /\ fold = 2
    /\ result = "c"

\* C5: every move is a clamped single step: an up event takes i to i-1, or
\* leaves 0 at 0; a down event takes i to i+1, or leaves len-1 at len-1; and no
\* step of the dialog changes the index by more than 1.
C5_ClampedSingleStep ==
    [][/\ (ReadsEvent /\ action' = "up")
            => selected_item' = IF selected_item > 0 THEN selected_item - 1 ELSE 0
       /\ (ReadsEvent /\ action' = "down")
            => selected_item' = IF selected_item < Len(items) - 1
                                THEN selected_item + 1
                                ELSE selected_item
       /\ selected_item' - selected_item \in {-1, 0, 1}]_vars

\* C5 witness: a down event read at the last of three items did nothing.
C5_Witness ==
    /\ pc = "AwaitingInput"
    /\ Len(items) = 3
    /\ action = "down"
    /\ selected_item = 2
    /\ out = <<>>

\* The latest event read is a key pressed with no modifier.
PlainKey == last_event.kind = "Key" /\ last_event.modifiers = NONE

\* The codes bound to up / down in the running session: those add_up_key /
\* add_down_key took, and the default pushed by every start() so far.
BoundUp == added_up \cup started_up
BoundDown == added_down \cup started_down

\* C4 as stated: in a session a key event with no modifiers is classified as up
\* exactly when its code is the default up code or was registered with
\* add_up_key, and as down exactly when its code is the default down code or
\* was registered with add_down_key.
C4_ExactlyDefaultOrAdded ==
    (pc = "AwaitingInput" /\ PlainKey)
        => /\ action = "up" <=> last_event.code \in {default_up} \cup added_up
           /\ action = "down" <=> last_event.code \in {default_down} \cup added_down

\* C4 amended: custom keys extend the defaults. In a session a key event with
\* no modifiers and a code other than the confirm code is classified as up
\* exactly when its code was registered with add_up_key or was the default up
\* code at a start() so far, and as down exactly when it is not classified as
\* up and its code was registered with add_down_key or was the default down
\* code at a start() so far.
C4_CustomKeysExtendDefaults ==
    (pc = "AwaitingInput" /\ PlainKey /\ last_event.code # "Enter")
        => /\ action = "up" <=> last_event.code \in BoundUp
           /\ action = "down" <=> /\ last_event.code \notin BoundUp
                                  /\ last_event.code \in BoundDown

\* C4 witness: items [a,b], add_up_key('k'), default down key; after a down
\* event, the 'k' event moved the selection from b back to a.
C4_Witness ==
    /\ items = <<"a", "b">>
    /\ added_up = {"k"}
    /\ default_down = "Down"
    /\ pc = "AwaitingInput"
    /\ last_event = KeyEvent("k", NONE)
    /\ action = "up"
    /\ selected_item = 0
    /\ out # <<>>

\* C6: add_up_key / add_down_key with the confirm code always fails, and the
\* failing call leaves the up and down key sets without the confirm code.
C6_FailedAddLeavesNoEnter ==
    /\ "Enter" \notin added_up \cup added_down
    /\ panic_at \in {"add_up_key", "add_down_key"}
         => "Enter" \notin Range(up_keys) \cup Range(down_keys)

\* C7: the confirm code never appears in the up key set or the down key set.
C7_EnterNeverBound == "Enter" \notin Range(up_keys) \cup Range(down_keys)

\* C8: a key event with a modifier held whose code is a bound up key, a bound
\* down key or the confirm code matches nothing: no move, no repaint, no
\* callback, and the session goes on.
C8_ModifierNeverMatches ==
    [][(/\ ReadsEvent
        /\ last_event'.kind = "Key"
        /\ last_event'.modifiers # NONE
        /\ last_event'.code \in Range(up_keys) \cup Range(down_keys) \cup {"Enter"})
            => /\ action' = "ignored"
               /\ pc' = "AwaitingInput"
               /\ selected_item' = selected_item
               /\ lines' = lines
               /\ out' = <<>>
               /\ notified' = <<>>
               /\ result' = result]_vars

\* C8 witness: with a callback registered and the second item selected, the
\* up key pressed with shift was read and ignored.
C8_Witness ==
    /\ pc = "AwaitingInput"
    /\ selection_changed
    /\ selected_item = 1
    /\ last_event = KeyEvent("Up", {"SHIFT"})
    /\ "Up" \in Range(up_keys)
    /\ action = "ignored"
    /\ notified = <<>>

\* C9: a dialog over an empty item list fails at construction: no constructed
\* dialog holds an empty list, and none ever paints or reads for one.
C9_EmptyListFailsAtConstruction ==
    Len(items) = 0 => pc \notin {"Building", "AwaitingInput", "Confirmed"}

\* C10: with a non-empty list only the confirm event ends the session: a step
\* that returns from start() read the confirm event and returns an item; an
\* up, down or unrecognised event leaves the session waiting; and when the
\* terminal eventually delivers the confirm event, a waiting session ends
\* Confirmed with an item returned, unless read() fails first.
C10_OnlyConfirmEnds ==
    /\ [][/\ (pc = "AwaitingInput" /\ pc' = "Confirmed")
               => (last_event' = EnterEvent /\ result' \in Range(items))
          /\ (ReadsEvent /\ action' \in {"up", "down", "ignored"})
               => (pc' = "AwaitingInput" /\ result' = NoItem)]_vars
    /\ (pc = "AwaitingInput")
         ~> ((pc = "Confirmed" /\ result \in Range(items)) \/ panic_at = "read")

\* C10 witness: after a move, an unrecognised event was read and the session
\* still waits.
C10_Witness ==
    /\ pc = "AwaitingInput"
    /\ last_event = ResizeEvent
    /\ action = "ignored"
    /\ selected_item = 1
    /\ result = NoItem

\* The step is a read() that returned an error.
ReadFails == pc = "AwaitingInput" /\ action' = "read_error"

\* C11: when the blocking read fails the session ends at once in a fatal
\* state: nothing is moved, painted or notified, start() returns no item, and
\* nothing happens afterwards (no retry).
C11_ReadFailureIsFatal ==
    [][/\ ReadFails
            => /\ pc' = "Panicked"
               /\ panic_at' = "read"
               /\ result' = NoItem
               /\ selected_item' = selected_item
               /\ lines' = lines
               /\ out' = <<>>
               /\ notified' = <<>>
               /\ effects' = <<>>
       /\ pc = "Panicked" => UNCHANGED vars]_vars

\* C11 witness: the read failed in a session whose selection had moved.
C11_Witness ==
    /\ pc = "Panicked"
    /\ panic_at = "read"
    /\ action = "read_error"
    /\ selected_item = 1
    /\ result = NoItem

\* The event is neither the confirm event nor a bound up or down key pressed
\* with no modifier.
Unbound(event) ==
    /\ event # EnterEvent
    /\ ~(/\ event.kind = "Key"
         /\ event.modifiers = NONE
         /\ event.code \in Range(up_keys) \cup Range(down_keys))

\* C12: an event that is neither the confirm event nor an up or down binding
\* is discarded: index, lines and key sets are unchanged, nothing is printed,
\* the callback is not invoked, and the session stays in AwaitingInput.
C12_UnboundEventDiscarded ==
    [][(ReadsEvent /\ Unbound(last_event'))
            => /\ action' = "ignored"
               /\ pc' = "AwaitingInput"
               /\ UNCHANGED <<selected_item, lines, up_keys, down_keys, result>>
               /\ out' = <<>>
               /\ notified' = <<>>
               /\ effects' = <<>>]_vars

\* C12 witness: with a callback registered and the second item selected, the
\* unbound key 'k' was read and discarded.
C12_Witness ==
    /\ pc = "AwaitingInput"
    /\ selection_changed
    /\ "k" \notin Range(up_keys) \cup Range(down_keys)
    /\ last_event = KeyEvent("k", NONE)
    /\ action = "ignored"
    /\ selected_item = 1
    /\ out = <<>>

\* The direction tag of a classification.
KeyTag(class) == IF class = "up" THEN "UpKey" ELSE "DownKey"

\* C13: with a callback registered, every up or down event invokes it exactly
\* once, as the last effect of the iteration (after the index update and any
\* repaint), with the event's direction tag and the item at the index after
\* the move, at a boundary too; no other step invokes it, and without a
\* callback nothing is invoked.
C13_CallbackOncePerMove ==
    [][/\ (ReadsEvent /\ action' \in {"up", "down"} /\ selection_changed)
            => /\ notified' = <<[key |-> KeyTag(action'),
                                 item |-> items[selected_item' + 1]]>>
               /\ Len(effects') = Len(out') + 1
               /\ effects'[Len(effects')].op = "callback"
               /\ \A i \in 1..Len(out') : effects'[i] = out'[i]
       /\ ~(ReadsEvent /\ action' \in {"up", "down"} /\ selection_changed)
            => /\ notified' = <<>>
               /\ \A i \in 1..Len(effects') : effects'[i].op # "callback"]_vars

\* C13 witness: an up event at the first item printed nothing and the
\* callback received UpKey with the unchanged item.
C13_Witness ==
    /\ pc = "AwaitingInput"
    /\ selection_changed
    /\ action = "up"
    /\ selected_item = 0
    /\ out = <<>>
    /\ notified = <<[key |-> "UpKey", item |-> "a"]>>

\* The kinds of the printed items, in order.
Kinds(printed) == [i \in 1..Len(printed) |-> printed[i].op]

\* One erase (cursor up, a blank row per item, cursor up) followed by one
\* paint of all items, and nothing else.
OneEraseOnePaint(printed) ==
    Kinds(printed) = <<"move_up">> \o [i \in 1..Len(items) |-> "blank"]
                     \o <<"move_up">> \o [i \in 1..Len(items) |-> "line"]

\* C14 as stated: every up or down event, one received at the move boundary
\* too, performs exactly one full erase followed by exactly one full repaint.
C14_EveryNavigationRepaints ==
    (pc = "AwaitingInput" /\ action \in {"up", "down"}) => OneEraseOnePaint(out)

\* C14 amended: an up or down event that changes the selection index performs
\* exactly one full erase followed by exactly one full repaint of all items
\* before the next event is read; one received at the move boundary prints
\* nothing.
C14_MoveRepaintsBoundaryDoesNot ==
    [][(ReadsEvent /\ action' \in {"up", "down"})
            => IF selected_item' # selected_item
               THEN OneEraseOnePaint(out')
               ELSE out' = <<>>]_vars

\* C14 witness: a down event moved the selection of a three-item list and
\* erased and repainted once.
C14_Witness ==
    /\ pc = "AwaitingInput"
    /\ Len(items) = 3
    /\ action = "down"
    /\ selected_item = 1
    /\ OneEraseOnePaint(out)

\* The lines a step painted, in order.
IsLine(printed) == printed.op = "line"
Painted(printed) ==
    LET ls == SelectSeq(printed, IsLine) IN [i \in 1..Len(ls) |-> ls[i].line]

\* C15: every paint (the first one and each repaint) emits one line per item
\* in index order; exactly the line at the selection index is flagged
\* selected, it is underlined iff underline-on-select is on and has indent 1
\* iff forward-indent-on-select is on, and every other line has the default
\* flags.
C15_PaintFlagsOnlySelected ==
    LET p == Painted(out)
    IN  /\ (pc = "AwaitingInput" /\ action = "start") => p # <<>>
        /\ p # <<>>
             => /\ Len(p) = Len(items)
                /\ p = lines
                /\ \A i \in 1..Len(p) :
                     /\ p[i].text = items[i]
                     /\ p[i].selected = (i = selected_item + 1)
                     /\ p[i].underlined
                          = (i = selected_item + 1 /\ underline_selected_item)
                     /\ p[i].indent
                          = IF i = selected_item + 1 /\ move_selected_item_forward
                            THEN 1 ELSE 0

\* C15 witness: with underline and forward indent on, a repaint after a move
\* down to the second item.
C15_Witness ==
    /\ underline_selected_item
    /\ move_selected_item_forward
    /\ pc = "AwaitingInput"
    /\ action = "down"
    /\ selected_item = 1
    /\ Painted(out) # <<>>

\* C16: for every item count and every repaint, with the rows counted from the
\* top row of the previous paint (the cursor stands below its last row): the
\* blank rows of the erase fall on exactly the rows of the previous paint, and
\* the fresh paint is written on the same rows.
C16_EraseCoversPreviousPaint ==
    "blank" \in Range(Kinds(out))
        => /\ RowsOf(out, Len(items), "blank") = 0..(Len(items) - 1)
           /\ RowsOf(out, Len(items), "line") = 0..(Len(items) - 1)

\* C17: an Enter event with no modifiers always ends the session and never
\* moves the selection, whatever the key sets hold, Enter itself included
\* (installed with set_up_key / set_down_key): the confirm test comes first.
C17_EnterAlwaysConfirms ==
    [][(pc = "AwaitingInput" /\ last_event' = EnterEvent)
            => /\ action' = "confirm"
               /\ pc' = "Confirmed"
               /\ selected_item' = selected_item
               /\ out' = <<>>
               /\ notified' = <<>>]_vars

\* C17 witness: Enter is an up key, the second item is selected, and the
\* Enter event ended the session there.
C17_Witness ==
    /\ "Enter" \in Range(up_keys)
    /\ pc = "Confirmed"
    /\ last_event = EnterEvent
    /\ action = "confirm"
    /\ selected_item = 1
    /\ result = "b"

\* The event is a key pressed with no modifier whose code is in both key sets.
BoundBothWays(event) ==
    /\ event.kind = "Key"
    /\ event.modifiers = NONE
    /\ event.code # "Enter"
    /\ event.code \in Range(up_keys) \cap Range(down_keys)

\* C18: one event is classified one way, up first: an event whose code is in
\* both key sets moves up only (the index never increases, the callback gets
\* the up tag once), and no event performs more than one move, one repaint
\* and one callback.
C18_UpTakesPrecedence ==
    [][ReadsEvent
            => /\ BoundBothWays(last_event')
                    => /\ action' = "up"
                       /\ selected_item' <= selected_item
                       /\ notified' = IF selection_changed
                                      THEN <<[key |-> "UpKey",
                                              item |-> items[selected_item' + 1]]>>
                                      ELSE <<>>
               /\ Len(notified') <= 1
               /\ selected_item' - selected_item \in {-1, 0, 1}
               /\ out' = <<>> \/ OneEraseOnePaint(out')]_vars

\* C18 witness: the code Up is in both key sets, a callback is registered,
\* and an Up event moved the selection from the second item to the first.
C18_Witness ==
    /\ pc = "AwaitingInput"
    /\ selection_changed
    /\ BoundBothWays(last_event)
    /\ action = "up"
    /\ selected_item = 0
    /\ out # <<>>
    /\ notified = <<[key |-> "UpKey", item |-> "a"]>>

\* C19: a start() call behaves like start() on a fresh dialog with the same
\* configuration: it begins at index 0 and binds exactly the current default
\* up / down code plus the added custom codes.
C19_SessionsIndependent ==
    (pc = "AwaitingInput" /\ action = "start")
        => /\ selected_item = 0
           /\ Range(up_keys) = {default_up} \cup added_up
           /\ Range(down_keys) = {default_down} \cup added_down

\* C20: items.len() - 1 in move_down is never evaluated on an empty list: for
\* an empty list start() panics in its first paint, before anything is
\* printed and before any event is read, so no move ever runs and the index
\* stays 0.
C20_NoUnderflowOnEmptyList ==
    /\ panic_at \notin {"move_up", "move_down"}
    /\ Len(items) = 0
         => /\ pc \in {"Building", "Panicked"}
            /\ session > 0 => (pc = "Panicked" /\ panic_at = "print_lines")
            /\ selected_item = 0
            /\ last_event = NoEvent
            /\ action \in {"none", "start"}
            /\ out = <<>>

\* C20 witness: start() on an empty list panicked in print_lines.
C20_Witness ==
    /\ Len(items) = 0
    /\ session = 1
    /\ pc = "Panicked"
    /\ panic_at = "print_lines"
=============================================================================
